---- MODULE Spec2Model ----
(***************************************************************************)
(* Model of the DSS-28 EAC database access layer (class DSS28db,           *)
(* src/__init__.py).  The store's tables, the class attribute last_id,     *)
(* each handle's attributes and the observable outcome of the last call    *)
(* (returned value or raised exception, statements sent to the Query       *)
(* Executor, log records emitted) are the state; every public method is    *)
(* one action.                                                             *)
(***************************************************************************)
EXTENDS Integers, Sequences, FiniteSets, TLC

VARIABLES
  rss_cfg,    \* table rss_cfg: set of rows
  tlog,       \* table tlog: sequence of rows in store order
  xscan,      \* table xscan: sequence of rows in store order
  xpwr,       \* table xpwr: sequence of rows in store order
  xpwr_cfg,   \* table xpwr_cfg: set of rows
  source,     \* table gavrt_sources.source: set of rows
  cfg_rows,   \* number of rows of chan_cfg, conv_cfg and raster_cfg
  hasGetLastID, \* whether support.mysql.BaseDB provides getLastID
  handles,    \* the DSS28db instances constructed so far
  last_id,    \* DSS28db.last_id, the class attribute (one dict for the class)
  sessions,   \* sessions[h]: the instance attribute self.sessions of handle h
  receiver,   \* receiver[h]: the instance attribute self.receiver of handle h
  lastOp,     \* the last call: method, handle and arguments
  result,     \* its outcome: value returned or exception raised
  log,        \* the log records it emitted (levels, in order)
  sent        \* the number of statements it sent to the Query Executor

vars == <<rss_cfg, tlog, xscan, xpwr, xpwr_cfg, source, cfg_rows,
          hasGetLastID, handles, last_id, sessions, receiver, lastOp,
          result, log, sent>>

store == <<rss_cfg, tlog, xscan, xpwr, xpwr_cfg, source, cfg_rows,
           hasGetLastID>>
attrs == <<handles, last_id, sessions, receiver>>

(***************************************************************************)
(* Bounds of the model.                                                    *)
(***************************************************************************)
MaxAcquire  == 1    \* rows the acquisition pipeline may add in all
MaxYear     == 2    \* years are 1..MaxYear
MaxDoy      == 2    \* days of year are 1..MaxDoy
MaxUtc      == 2    \* times of day are 1..MaxUtc
MaxCfgRows  == 2    \* rows of rss_cfg
MaxTlogRows == 2    \* rows of tlog drawn initially
MaxTick     == 5    \* epochs are 0..MaxTick ticks
MaxIds      == 2    \* length of the id list given to get_source_names
MaxSourceId == 2    \* source ids are 1..MaxSourceId
MaxScans    == 2    \* rows of xscan

(***************************************************************************)
(* Python values.                                                          *)
(***************************************************************************)
\* None, for arguments that are otherwise numbers
None == -1

\* bool(x) of a number or None
Truthy(x) == x # None /\ x # 0

Returned(v) == [kind |-> "return", exc |-> "", val |-> v]
Raised(e)   == [kind |-> "raise", exc |-> e, val |-> None]
NoCall      == [kind |-> "none", exc |-> "", val |-> None]

\* a dict with no keys
EmptyDict == [k \in {} |-> None]

\* d after d[k] = v
DictPut(d, k, v) == [x \in DOMAIN d \cup {k} |-> IF x = k THEN v ELSE d[x]]

\* the handles: the one constructed first and another
Handles == {1, 2}
Years   == 1..MaxYear
Doys    == 1..MaxDoy
Utcs    == 1..MaxUtc

\* the keys of DSS28db.last_id
LastIdTables == {"chan_cfg", "conv_cfg", "raster_cfg", "tlog"}

TlogRow == [chan : {2, 4}, epoch : 0..MaxTick, top : {10}]

\* the tables of dss28_eac whose rows are not read by column here
CfgTables == {"chan_cfg", "conv_cfg", "raster_cfg"}

(***************************************************************************)
(* Construction, the disabled writers and the session accessor.            *)
(***************************************************************************)
\* BaseDB.getLastID(table): the identifier of the table's last row
getLastID(table) ==
  IF table = "tlog" THEN Len(tlog) ELSE cfg_rows[table]

\* rows the acquisition pipeline has added so far
Acquired == Len(tlog) + cfg_rows["chan_cfg"] + cfg_rows["conv_cfg"]
              + cfg_rows["raster_cfg"]

\* the data-acquisition pipeline adds a row to a table of the store
Acquire(table, row) ==
  /\ Acquired < MaxAcquire
  /\ IF table = "tlog"
       THEN /\ tlog' = Append(tlog, row)
            /\ UNCHANGED cfg_rows
       ELSE /\ cfg_rows' = [cfg_rows EXCEPT ![table] = @ + 1]
            /\ UNCHANGED tlog
  /\ lastOp' = [op |-> "acquire", handle |-> 0, table |-> table]
  /\ result' = NoCall
  /\ log' = <<>>
  /\ sent' = 0
  /\ UNCHANGED <<rss_cfg, xscan, xpwr, xpwr_cfg, source, hasGetLastID, attrs>>

\* DSS28db.__init__: self.last_id is the class attribute, so the loop
\* assigns into the one dict every handle sees; without getLastID in the
\* base class each lookup raises AttributeError, which is logged
DSS28db_init(h) ==
  /\ h \notin handles
  /\ handles' = handles \cup {h}
  /\ last_id' = IF hasGetLastID
                  THEN [t \in LastIdTables |-> getLastID(t)]
                  ELSE last_id
  /\ sessions' = [sessions EXCEPT ![h] = EmptyDict]
  /\ UNCHANGED receiver
  /\ lastOp' = [op |-> "__init__", handle |-> h]
  /\ result' = Returned(h)
  /\ log' = IF hasGetLastID
              THEN <<"debug">>
              ELSE <<"debug", "error", "error", "error", "error">>
  /\ sent' = IF hasGetLastID THEN Cardinality(LastIdTables) ELSE 0
  /\ UNCHANGED store

\* insertRecord as the base class has it: the record is written to the table
insertRecord_writes(h, table, rec) ==
  /\ h \in handles
  /\ Len(tlog) <= MaxAcquire
  /\ tlog' = Append(tlog, rec)
  /\ lastOp' = [op |-> "insertRecord", handle |-> h, table |-> table,
                rec |-> rec]
  /\ result' = Returned(None)
  /\ log' = <<"warning">>
  /\ sent' = 1
  /\ UNCHANGED <<rss_cfg, xscan, xpwr, xpwr_cfg, source, cfg_rows,
                 hasGetLastID, attrs>>

\* DSS28db.insertRecord: a warning and nothing else
insertRecord(h, table, rec) ==
  /\ h \in handles
  /\ lastOp' = [op |-> "insertRecord", handle |-> h, table |-> table,
                rec |-> rec]
  /\ result' = Returned(None)
  /\ log' = <<"warning">>
  /\ sent' = 0
  /\ UNCHANGED <<store, attrs>>

\* DSS28db.updateValues: a warning and nothing else
updateValues(h, vald, table) ==
  /\ h \in handles
  /\ lastOp' = [op |-> "updateValues", handle |-> h, table |-> table,
                vald |-> vald]
  /\ result' = Returned(None)
  /\ log' = <<"warning">>
  /\ sent' = 0
  /\ UNCHANGED <<store, attrs>>

\* DSS28db.get_session: the year's dict is created when absent; the name
\* Session is bound nowhere in the module, so evaluating Session(...)
\* raises NameError before self.sessions[year][doy] is assigned
get_session(h, year, doy) ==
  /\ h \in handles
  /\ sessions' = [sessions EXCEPT ![h] =
                    IF year \in DOMAIN @ THEN @
                    ELSE DictPut(@, year, EmptyDict)]
  /\ lastOp' = [op |-> "get_session", handle |-> h, year |-> year,
                doy |-> doy]
  /\ result' = Raised("NameError")
  /\ log' = <<>>
  /\ sent' = 0
  /\ UNCHANGED <<store, handles, last_id, receiver>>

\* the rows the acquisition pipeline may add to tlog
AcquireRows == {r \in TlogRow : r.epoch = 1}

\* the receiver attribute while it has not been assigned
NoReceiver == [has |-> FALSE, keys |-> {}, cells |-> {}]

\* the state after the first handle is constructed
InitHandle ==
  /\ handles = {1}
  /\ last_id = [t \in LastIdTables |->
                  IF hasGetLastID THEN getLastID(t) ELSE None]
  /\ sessions = [h \in Handles |-> EmptyDict]
  /\ receiver = [h \in Handles |-> NoReceiver]
  /\ lastOp = [op |-> "__init__", handle |-> 1]
  /\ result = Returned(1)
  /\ log = IF hasGetLastID
             THEN <<"debug">>
             ELSE <<"debug", "error", "error", "error", "error">>
  /\ sent = IF hasGetLastID THEN Cardinality(LastIdTables) ELSE 0

EmptyStore ==
  /\ rss_cfg = {}
  /\ tlog = <<>>
  /\ xscan = <<>>
  /\ xpwr = <<>>
  /\ xpwr_cfg = {}
  /\ source = {}
  /\ cfg_rows = [t \in CfgTables |-> 0]

Init ==
  /\ EmptyStore
  /\ hasGetLastID \in BOOLEAN
  /\ InitHandle

Next ==
  \/ \E t \in LastIdTables, row \in AcquireRows : Acquire(t, row)
  \/ \E h \in Handles : DSS28db_init(h)
  \/ \E h \in Handles, rec \in AcquireRows : insertRecord(h, "tlog", rec)
  \/ \E h \in Handles, vald \in AcquireRows : updateValues(h, vald, "tlog")
  \/ \E h \in Handles, year \in Years, doy \in Doys : get_session(h, year, doy)

Spec == Init /\ [][Next]_vars

(***************************************************************************)
(* Properties of construction, the writers and the session accessor.       *)
(***************************************************************************)
\* C4: every get_session(Y, D) call returns a session handle, and the handle
\* it returns is the one memoized for (Y, D) in the handle's session cache
C4_SessionMemoized ==
  lastOp.op = "get_session" =>
    /\ result.kind = "return"
    /\ lastOp.year \in DOMAIN sessions[lastOp.handle]
    /\ lastOp.doy \in DOMAIN sessions[lastOp.handle][lastOp.year]
    /\ result.val = sessions[lastOp.handle][lastOp.year][lastOp.doy]

\* C6: a call of insertRecord or updateValues returns None without raising,
\* sends nothing to the Query Executor, logs exactly one warning and leaves
\* the stored tables, last_id and every handle's attributes as they were
C6_WritersAreNoOps ==
  [][lastOp'.op \in {"insertRecord", "updateValues"} =>
       /\ result' = Returned(None)
       /\ sent' = 0
       /\ log' = <<"warning">>
       /\ UNCHANGED <<store, attrs>>]_vars

\* C6 witness: updateValues has been called on the second handle, which has
\* a session year cached, after the pipeline stored a tlog row
C6_Witness ==
  /\ lastOp.op = "updateValues"
  /\ lastOp.handle = 2
  /\ result = Returned(None)
  /\ log = <<"warning">>
  /\ DOMAIN sessions[2] # {}
  /\ tlog # <<>>

\* C10: no step of one handle (its construction or a call on it) changes the
\* last_id or the sessions seen through another, already constructed handle
C10_HandlesShareNothing ==
  [][\A h \in handles :
       lastOp'.handle \in Handles \ {h} =>
         last_id' = last_id /\ sessions'[h] = sessions[h]]_vars

(***************************************************************************)
(* get_receiver_data.                                                      *)
(***************************************************************************)
\* the channels of the loop, in its order
Channels == <<2, 4, 6, 8, 10, 12, 14, 16>>

\* rows of rss_cfg: the row's if_mode is "A" for identifier 1 and "B" for
\* the others, so that a returned value tells which row it came from
RssRow ==
  {r \in [rss_cfg_id : 1..MaxCfgRows, year : Years, doy : Doys, utc : Utcs,
          chan : {2, 4}, if_mode : {"A", "B"}, pol : {"L"}] :
     r.if_mode = (IF r.rss_cfg_id = 1 THEN "A" ELSE "B")}

\* contents of rss_cfg with identifiers up to n: identifiers are unique
RECURSIVE RssTablesUpTo(_)
RssTablesUpTo(n) ==
  IF n = 0 THEN {{}}
  ELSE LET rest == RssTablesUpTo(n - 1)
       IN  rest \cup {t \cup {r} : t \in rest,
                                   r \in {x \in RssRow : x.rss_cfg_id = n}}

RssTables == RssTablesUpTo(MaxCfgRows)

\* the outcome of a call: what it returns or raises, self.receiver after it,
\* the statements it sent and the records it logged
Outcome(res, rcv, n, lg) ==
  [result |-> res, receiver |-> rcv, sent |-> n, log |-> lg]

\* "order by year desc, doy desc, utc desc": r sorts after s
SortsAfter(r, s) ==
  \/ r.year < s.year
  \/ r.year = s.year /\ r.doy < s.doy
  \/ r.year = s.year /\ r.doy = s.doy /\ r.utc < s.utc

\* the rows the first statement may return: year <= Y and doy <= D and
\* utc <= 'T', the first in descending order (any of those that tie); a
\* time of None is rendered 'None', which no utc is at or before
LatestData(year, doy, time) ==
  LET q == {r \in rss_cfg : r.year <= year /\ r.doy <= doy /\ r.utc <= time}
  IN  {r \in q : \A s \in q : ~SortsAfter(r, s)}

\* the row the per-channel statement returns: rss_cfg_id <= cfg_ID and
\* chan = C, the first by descending rss_cfg_id; {} when there is none
RxData(cfg_ID, chan) ==
  LET q == {r \in rss_cfg : r.rss_cfg_id <= cfg_ID /\ r.chan = chan}
  IN  {r \in q : \A s \in q : s.rss_cfg_id <= r.rss_cfg_id}

\* the value of column key in row r
Field(r, key) == IF key = "if_mode" THEN r.if_mode ELSE r.pol

\* self.receiver[key][Channels[i]] for the keys and channel positions given
Cells(cfg_ID, keys, positions) ==
  UNION {{<<key, Channels[i], Field(r, key)>> :
            r \in RxData(cfg_ID, Channels[i])} :
         key \in keys, i \in positions}

\* the loops over the keys and the channels with cfg_ID found: the first
\* channel without a row raises at rx_data[key][0], leaving self.receiver
\* filled up to there
FillReceiver(cfg_ID, columns) ==
  LET missing == {i \in 1..Len(Channels) : RxData(cfg_ID, Channels[i]) = {}}
      first   == CHOOSE i \in missing : \A j \in missing : i <= j
      keys    == {columns[k] : k \in 1..Len(columns)}
  IN  IF missing = {}
        THEN LET rcv == [has |-> TRUE, keys |-> keys,
                         cells |-> Cells(cfg_ID, keys, 1..Len(Channels))]
             IN  Outcome(Returned(rcv), rcv,
                         1 + Len(columns) * Len(Channels), <<>>)
        ELSE Outcome(Raised("LookupError"),
                     [has |-> TRUE, keys |-> {columns[1]},
                      cells |-> Cells(cfg_ID, {columns[1]}, 1..(first - 1))],
                     1 + first, <<>>)

\* the statements after the guard; columns = <<>> is the default []
ReceiverQuery(h, year, doy, time, columns) ==
  IF year = None \/ doy = None
    THEN \* "year <= None": the statement names a column None
         {Outcome(Raised("OperationalError"), receiver[h], 1, <<>>)}
  ELSE IF LatestData(year, doy, time) = {}
    THEN \* latest_data['rss_cfg_id'][0] of an empty result
         {Outcome(Raised("LookupError"), receiver[h], 1, <<>>)}
  ELSE IF columns = <<>>
    THEN \* [].replace
         {Outcome(Raised("AttributeError"),
                  [has |-> TRUE, keys |-> {}, cells |-> {}], 1, <<>>)}
  ELSE {FillReceiver(r.rss_cfg_id, columns) : r \in LatestData(year, doy, time)}

\* the outcomes of get_receiver_data(year, doy, time, epoch, columns): the
\* guard tests the unbound name utc once year and doy are both true
ReceiverOutcomes(h, year, doy, time, epoch, columns) ==
  IF Truthy(year) /\ Truthy(doy)
    THEN {Outcome(Raised("NameError"), receiver[h], 0, <<>>)}
  ELSE IF Truthy(epoch)
    THEN ReceiverQuery(h, year, doy, time, columns)
  ELSE {Outcome(Raised("RuntimeError"), receiver[h], 0, <<"error">>)}

\* DSS28db.get_receiver_data
get_receiver_data(h, year, doy, time, epoch, columns) ==
  /\ h \in handles
  /\ \E out \in ReceiverOutcomes(h, year, doy, time, epoch, columns) :
       /\ result' = out.result
       /\ receiver' = [receiver EXCEPT ![h] = out.receiver]
       /\ sent' = out.sent
       /\ log' = out.log
  /\ lastOp' = [op |-> "get_receiver_data", handle |-> h, year |-> year,
                doy |-> doy, time |-> time, epoch |-> epoch,
                columns |-> columns]
  /\ UNCHANGED <<store, handles, last_id, sessions>>

\* the column lists a caller gives: the default [] or two columns
ColumnArgs == {<<>>, <<"if_mode", "pol">>}

InitReceiver ==
  /\ rss_cfg \in RssTables
  /\ tlog = <<>>
  /\ xscan = <<>>
  /\ xpwr = <<>>
  /\ xpwr_cfg = {}
  /\ source = {}
  /\ cfg_rows = [t \in CfgTables |-> 0]
  /\ hasGetLastID = TRUE
  /\ InitHandle

NextReceiver ==
  \E h \in Handles, year \in {None, 0} \cup Years, doy \in {None} \cup Doys,
     time \in {None} \cup Utcs, epoch \in {None, 0, 5}, columns \in ColumnArgs :
    get_receiver_data(h, year, doy, time, epoch, columns)

SpecReceiver == InitReceiver /\ [][NextReceiver]_vars

(***************************************************************************)
(* Properties of get_receiver_data.                                        *)
(***************************************************************************)
\* row r is at or before (year, doy, time) in the lexicographic order
AtOrBefore(r, year, doy, time) ==
  ~SortsAfter([year |-> year, doy |-> doy, utc |-> time], r)

\* the rows of channel chan with the greatest composite at or before the
\* reference time
Resolved(chan, year, doy, time) ==
  LET q == {r \in rss_cfg : r.chan = chan /\ AtOrBefore(r, year, doy, time)}
  IN  {r \in q : \A s \in q : ~SortsAfter(r, s)}

\* the last call was get_receiver_data with a complete structured date
StructuredCall ==
  /\ lastOp.op = "get_receiver_data"
  /\ lastOp.year \in Years
  /\ lastOp.doy \in Doys
  /\ lastOp.time \in Utcs
  /\ lastOp.columns # <<>>

\* C1: for a reference time (year, doy, time), every requested field and
\* every channel with a row at or before that time, get_receiver_data
\* returns the field of the channel's row with the greatest (year, doy, utc)
\* lexicographically at or before the reference time
C1_ResolvesLatestAtOrBefore ==
  StructuredCall =>
    \A i \in 1..Len(Channels), k \in 1..Len(lastOp.columns) :
      LET rows == Resolved(Channels[i], lastOp.year, lastOp.doy, lastOp.time)
      IN  rows # {} =>
            /\ result.kind = "return"
            /\ \E r \in rows :
                 <<lastOp.columns[k], Channels[i], Field(r, lastOp.columns[k])>>
                   \in result.val.cells

\* C2: get_receiver_data does not raise when channels have no row at or
\* before the reference time: it returns, each field of such a channel holds
\* a marker that is no column value, and each field of every other channel
\* holds the value of that channel's resolved row
C2_GapsAreMarkedNotRaised ==
  StructuredCall =>
    /\ result.kind = "return"
    /\ \A i \in 1..Len(Channels), k \in 1..Len(lastOp.columns) :
         LET rows == Resolved(Channels[i], lastOp.year, lastOp.doy, lastOp.time)
             key  == lastOp.columns[k]
             held == {c \in result.val.cells : c[1] = key /\ c[2] = Channels[i]}
         IN  /\ held # {}
             /\ \A c \in held :
                  IF rows = {} THEN c[3] \notin {"A", "B", "L"}
                  ELSE \E r \in rows : c[3] = Field(r, key)

\* C3: a call that gives exactly one time representation (year, doy and
\* time all given, or epoch given) goes on to query; any other call raises
\* RuntimeError('No time specification') with no statement sent and the
\* handle's attributes unchanged
C3_ExactlyOneTimeSpec ==
  [][lastOp'.op = "get_receiver_data" =>
       LET structured == /\ lastOp'.year # None
                         /\ lastOp'.doy # None
                         /\ lastOp'.time # None
           byEpoch    == lastOp'.epoch # None
       IN  IF structured # byEpoch
             THEN sent' >= 1
             ELSE /\ result' = Raised("RuntimeError")
                  /\ sent' = 0
                  /\ UNCHANGED attrs]_vars

\* The statements after the guard, taken alone with a structured date: for
\* the first channel of the loop, the value stored in self.receiver is that
\* of the channel's resolved row whenever there is one.  (Violated: the first
\* statement compares year, doy and utc each on its own, and the per-channel
\* statement orders by rss_cfg_id.)
QueryPartResolvesLatest ==
  \A year \in Years, doy \in Doys, time \in Utcs :
    \A out \in ReceiverQuery(1, year, doy, time, <<"if_mode">>) :
      LET rows == Resolved(Channels[1], year, doy, time)
      IN  rows # {} =>
            \E r \in rows : <<"if_mode", Channels[1], r.if_mode>>
                              \in out.receiver.cells

\* The statements after the guard, taken alone: they do not raise for want
\* of a row.  (Violated: [0] of an empty result raises.)
QueryPartDoesNotRaise ==
  \A year \in Years, doy \in Doys, time \in Utcs :
    \A out \in ReceiverQuery(1, year, doy, time, <<"if_mode">>) :
      out.result.kind = "return"

(***************************************************************************)
(* get_Tsys.  Epochs are counted in ticks, TicksPerMicro to a microsecond, *)
(* so that the values a float can hold between two microseconds exist.     *)
(***************************************************************************)
TicksPerMicro == 3

\* '%f' % x: x to six decimals, the nearest whole microsecond
FormatF(x) ==
  ((2 * x + TicksPerMicro) \div (2 * TicksPerMicro)) * TicksPerMicro

\* what get_Tsys returns: the executor's response, or None
Response(rows) == [none |-> FALSE, rows |-> rows]
NoResponse     == [none |-> TRUE, rows |-> <<>>]

\* the rows r of sequence seq with keep[r], in the order of seq
RECURSIVE Select(_, _)
Select(seq, keep) ==
  IF seq = <<>> THEN <<>>
  ELSE IF keep[Head(seq)] THEN <<Head(seq)>> \o Select(Tail(seq), keep)
  ELSE Select(Tail(seq), keep)

\* the statement of get_Tsys, run by the executor: the bounds are the
\* rendered ones; chan is an integer, which '%d' renders exactly
TsysQuery(chan, start, stop) ==
  LET keep == [r \in TlogRow |->
                 /\ r.chan = chan
                 /\ r.epoch >= FormatF(start)
                 /\ r.epoch <= FormatF(stop)]
      rows == Select(tlog, keep)
  IN  [i \in 1..Len(rows) |-> <<rows[i].epoch, rows[i].top>>]

\* DSS28db.get_Tsys; fail: the executor raises
get_Tsys(h, chan, start, stop, fail) ==
  /\ h \in handles
  /\ lastOp' = [op |-> "get_Tsys", handle |-> h, chan |-> chan,
                start |-> start, stop |-> stop, fail |-> fail]
  /\ result' = IF fail THEN Returned(NoResponse)
               ELSE Returned(Response(TsysQuery(chan, start, stop)))
  /\ log' = IF fail THEN <<"error">> ELSE <<>>
  /\ sent' = 1
  /\ UNCHANGED <<store, attrs>>

\* contents of tlog: up to n rows
RECURSIVE TlogTablesUpTo(_)
TlogTablesUpTo(n) ==
  IF n = 0 THEN {<<>>}
  ELSE LET rest == TlogTablesUpTo(n - 1)
       IN  rest \cup {Append(t, r) : t \in rest, r \in TlogRow}

InitTsys ==
  /\ rss_cfg = {}
  /\ tlog \in TlogTablesUpTo(MaxTlogRows)
  /\ xscan = <<>>
  /\ xpwr = <<>>
  /\ xpwr_cfg = {}
  /\ source = {}
  /\ cfg_rows = [t \in CfgTables |-> 0]
  /\ hasGetLastID = TRUE
  /\ InitHandle

NextTsys ==
  \E h \in Handles, chan \in {2, 4}, start \in 0..MaxTick, stop \in 0..MaxTick,
     fail \in BOOLEAN :
    get_Tsys(h, chan, start, stop, fail)

SpecTsys == InitTsys /\ [][NextTsys]_vars

\* C7: get_Tsys never raises; when the executor succeeds it returns exactly
\* the tlog rows of the channel with start <= epoch <= stop, in store order;
\* when the executor fails it returns None and logs one error; the handle's
\* attributes are unchanged either way
C7_TsysInclusiveRange ==
  [][lastOp'.op = "get_Tsys" =>
       LET keep == [r \in TlogRow |->
                      /\ r.chan = lastOp'.chan
                      /\ lastOp'.start <= r.epoch
                      /\ r.epoch <= lastOp'.stop]
           rows == Select(tlog, keep)
       IN  /\ result'.kind = "return"
           /\ IF lastOp'.fail
                THEN result'.val = NoResponse /\ log' = <<"error">>
                ELSE result'.val = Response([i \in 1..Len(rows) |->
                                       <<rows[i].epoch, rows[i].top>>])
           /\ UNCHANGED attrs]_vars

\* With bounds that are whole microseconds the rendering changes nothing:
\* the rows returned are those with start <= epoch <= stop.
TsysWholeMicroseconds ==
  (/\ lastOp.op = "get_Tsys"
   /\ ~lastOp.fail
   /\ lastOp.start % TicksPerMicro = 0
   /\ lastOp.stop % TicksPerMicro = 0)
  => LET keep == [r \in TlogRow |->
                    /\ r.chan = lastOp.chan
                    /\ lastOp.start <= r.epoch
                    /\ r.epoch <= lastOp.stop]
         rows == Select(tlog, keep)
     IN  result = Returned(Response([i \in 1..Len(rows) |->
                                      <<rows[i].epoch, rows[i].top>>]))

(***************************************************************************)
(* get_source_names.                                                       *)
(***************************************************************************)
\* the elements of the list under 'source'
PyStr(name) == [type |-> "str", name |-> name]
PyNone      == [type |-> "NoneType", name |-> ""]
ListOfNone  == [type |-> "list", name |-> ""]

SourceRow == [source_id : 1..MaxSourceId, name : {"3C84", "Venus"}]

\* contents of gavrt_sources.source with identifiers up to n
RECURSIVE SourceTablesUpTo(_)
SourceTablesUpTo(n) ==
  IF n = 0 THEN {{}}
  ELSE LET rest == SourceTablesUpTo(n - 1)
       IN  rest \cup {t \cup {r} : t \in rest,
                                   r \in {x \in SourceRow : x.source_id = n}}

\* "select name from gavrt_sources.source where source_id=<id>"
SourceNames(source_id) == {r.name : r \in {x \in source : x.source_id = source_id}}

\* the loop of get_source_names over ids from position i on, names being the
\* list built and n the statements sent so far
RECURSIVE NamesLoop(_, _, _, _, _)
NamesLoop(h, ids, i, names, n) ==
  IF i > Len(ids)
    THEN Outcome(Returned([source |-> names]), receiver[h], n, <<"debug">>)
  ELSE IF ~Truthy(ids[i])
    THEN NamesLoop(h, ids, i + 1, Append(names, ListOfNone), n)
  ELSE IF SourceNames(ids[i]) = {}
    THEN \* response['name'][0] of an empty result
         Outcome(Raised("LookupError"), receiver[h], n + 1, <<"debug">>)
  ELSE NamesLoop(h, ids, i + 1,
                 Append(names, PyStr(CHOOSE x \in SourceNames(ids[i]) : TRUE)),
                 n + 1)

\* DSS28db.get_source_names; fail: the executor raises at the first statement
get_source_names(h, source_IDs, fail) ==
  /\ h \in handles
  /\ LET out == IF fail /\ \E i \in 1..Len(source_IDs) : Truthy(source_IDs[i])
                  THEN Outcome(Raised("OperationalError"), receiver[h], 1,
                               <<"debug">>)
                  ELSE NamesLoop(h, source_IDs, 1, <<>>, 0)
     IN  /\ result' = out.result
         /\ sent' = out.sent
         /\ log' = out.log
  /\ lastOp' = [op |-> "get_source_names", handle |-> h,
                source_IDs |-> source_IDs, fail |-> fail]
  /\ UNCHANGED <<store, attrs>>

\* the id lists a caller gives: up to n of None, 0 and the source ids
RECURSIVE IdListsUpTo(_)
IdListsUpTo(n) ==
  IF n = 0 THEN {<<>>}
  ELSE LET rest == IdListsUpTo(n - 1)
       IN  rest \cup {Append(l, x) : l \in rest,
                                     x \in {None, 0} \cup (1..MaxSourceId)}

InitSources ==
  /\ rss_cfg = {}
  /\ tlog = <<>>
  /\ xscan = <<>>
  /\ xpwr = <<>>
  /\ xpwr_cfg = {}
  /\ source \in SourceTablesUpTo(MaxSourceId)
  /\ cfg_rows = [t \in CfgTables |-> 0]
  /\ hasGetLastID = TRUE
  /\ InitHandle

NextSources ==
  \E h \in Handles, source_IDs \in IdListsUpTo(MaxIds), fail \in BOOLEAN :
    get_source_names(h, source_IDs, fail)

SpecSources == InitSources /\ [][NextSources]_vars

\* C5: for ids whose non-zero members are all in the catalog (and an
\* executor that answers), get_source_names returns {'source': list} with
\* one entry per id, in order: None itself for a falsy id, the catalog name
\* of the id otherwise
C5_NamesOrNone ==
  (/\ lastOp.op = "get_source_names"
   /\ ~lastOp.fail
   /\ \A i \in 1..Len(lastOp.source_IDs) :
        Truthy(lastOp.source_IDs[i]) => SourceNames(lastOp.source_IDs[i]) # {})
  => /\ result.kind = "return"
     /\ Len(result.val.source) = Len(lastOp.source_IDs)
     /\ \A i \in 1..Len(lastOp.source_IDs) :
          IF Truthy(lastOp.source_IDs[i])
            THEN \E x \in SourceNames(lastOp.source_IDs[i]) :
                   result.val.source[i] = PyStr(x)
            ELSE result.val.source[i] = PyNone

(***************************************************************************)
(* extract_boresight_data.                                                 *)
(***************************************************************************)
\* rows of xscan: xscan_id and utc are filled in from the row's position
ScanRow == [xpwr_cfg_id : {1, 2}, year : {1}, doy : Doys, el : {None, 30}]

\* contents of xscan: up to n rows in store order, the i-th with
\* xscan_id = i, utc = i and the columns that are only passed through
RECURSIVE ScanTablesUpTo(_)
ScanTablesUpTo(n) ==
  IF n = 0 THEN {<<>>}
  ELSE LET rest == ScanTablesUpTo(n - 1)
       IN  rest \cup
           {Append(t, [xscan_id |-> Len(t) + 1, xpwr_cfg_id |-> r.xpwr_cfg_id,
                       year |-> r.year, doy |-> r.doy, utc |-> Len(t) + 1,
                       epoch |-> Len(t) + 1, tsrc |-> 0, az |-> 0,
                       el |-> r.el]) : t \in rest, r \in ScanRow}

\* contents of xpwr: a row with elevation 40 for some of the times of day 1
PowerTables ==
  {<<>>} \cup {<<[year |-> 1, doy |-> 1, utc |-> u, el |-> 40]>> : u \in Utcs}

CfgRow == [xpwr_cfg_id : {1, 2}, source_id : 1..MaxSourceId, axis : {"dec"},
           chan : {2}]

\* contents of xpwr_cfg with identifiers up to n
RECURSIVE CfgTablesUpTo(_)
CfgTablesUpTo(n) ==
  IF n = 0 THEN {{}}
  ELSE LET rest == CfgTablesUpTo(n - 1)
       IN  rest \cup {t \cup {r} : t \in rest,
                                   r \in {x \in CfgRow : x.xpwr_cfg_id = n}}

\* get_rows_by_date("xscan", columns, year, doy): the day's rows, store order
ScansOfDay(year, doy) ==
  LET rows == {xscan[i] : i \in 1..Len(xscan)}
  IN  Select(xscan, [r \in rows |-> r.year = year /\ r.doy = doy])

\* get_rows_by_time('xpwr', ['utc','el','tsys'], year, doy, times): the
\* day's xpwr rows at the given times, store order
PowerOfTimes(year, doy, times) ==
  LET rows == {xpwr[i] : i \in 1..Len(xpwr)}
  IN  Select(xpwr, [r \in rows |->
                      /\ r.year = year
                      /\ r.doy = doy
                      /\ \E i \in 1..Len(times) : times[i] = r.utc])

\* boresight_data['el'] after "Fix the missing elevation data": the el
\* column of the xpwr rows, whatever xscan held
FixedEl(year, doy) ==
  LET scans == ScansOfDay(year, doy)
      power == PowerOfTimes(year, doy, [i \in 1..Len(scans) |-> scans[i].utc])
  IN  [i \in 1..Len(power) |-> power[i].el]

\* "select source_id, axis, chan from xpwr_cfg where xpwr_cfg_id=<id>"
CfgOf(cfg_id) == {c \in xpwr_cfg : c.xpwr_cfg_id = cfg_id}

\* boresight_data['source_id'] after the loop over xpwr_cfg_id and the
\* appends that follow it: the appends are outside the loop, so only the
\* last response is used
SourceIdList(scans) ==
  LET last == CfgOf(scans[Len(scans)].xpwr_cfg_id)
  IN  IF last = {} THEN <<>> ELSE <<(CHOOSE c \in last : TRUE).source_id>>

\* the loop over the times calling get_receiver_data(year, doy, time,
\* columns): the fourth positional parameter is epoch, so columns is the
\* default [] and epoch is the (true) column string.  The first call that
\* raises ends the loop.
RxLoop(h, year, doy, scans, n) ==
  LET outs(i) == ReceiverOutcomes(h, year, doy, scans[i].utc, 1, <<>>)
      all     == UNION {outs(i) : i \in 1..Len(scans)}
      runs    == {f \in [1..Len(scans) -> all] :
                    \A i \in 1..Len(scans) : f[i] \in outs(i)}
      raises(f) == {i \in 1..Len(scans) : f[i].result.kind = "raise"}
      first(f)  == CHOOSE i \in raises(f) : \A j \in raises(f) : i <= j
  IN  {IF raises(f) # {}
         THEN Outcome(f[first(f)].result, f[first(f)].receiver,
                      n + f[first(f)].sent, <<>>)
         ELSE Outcome(Returned([utc |-> [i \in 1..Len(scans) |-> scans[i].utc],
                                xscan_id |-> [i \in 1..Len(scans) |->
                                                scans[i].xscan_id],
                                el |-> FixedEl(year, doy),
                                source_id |-> SourceIdList(scans),
                                rx |-> [i \in 1..Len(scans) |->
                                          f[i].result.val]]),
                      f[Len(scans)].receiver, n, <<>>) : f \in runs}

\* the outcomes of extract_boresight_data(year, doy); fail: the executor
\* raises at the scan fetch; emptyKeys: the executor's response to a
\* statement that selects no row has its column keys (with empty columns)
BoresightOutcomes(h, year, doy, fail, emptyKeys) ==
  LET scans == ScansOfDay(year, doy)
      n     == Len(scans)
      ids   == SourceIdList(scans)
  IN  IF fail
        THEN {Outcome(Raised("OperationalError"), receiver[h], 1, <<>>)}
      ELSE IF n = 0
        THEN \* "for key in list(response.keys())" with response unbound
             {Outcome(Raised("UnboundLocalError"), receiver[h], 2, <<>>)}
      ELSE IF CfgOf(scans[n].xpwr_cfg_id) = {} /\ emptyKeys
        THEN \* response[key][0] of an empty column
             {Outcome(Raised("LookupError"), receiver[h], 2 + n, <<>>)}
      ELSE IF ids # <<>> /\ SourceNames(ids[1]) = {}
        THEN \* response['name'][0] of an empty result
             {Outcome(Raised("LookupError"), receiver[h], 3 + n, <<>>)}
      ELSE RxLoop(h, year, doy, scans, 2 + n + Len(ids))

\* DSS28db.extract_boresight_data
extract_boresight_data(h, year, doy, fail, emptyKeys) ==
  /\ h \in handles
  /\ \E out \in BoresightOutcomes(h, year, doy, fail, emptyKeys) :
       /\ result' = out.result
       /\ receiver' = [receiver EXCEPT ![h] = out.receiver]
       /\ sent' = out.sent
       /\ log' = out.log
  /\ lastOp' = [op |-> "extract_boresight_data", handle |-> h, year |-> year,
                doy |-> doy, fail |-> fail]
  /\ UNCHANGED <<store, handles, last_id, sessions>>

InitBoresight ==
  /\ rss_cfg = {}
  /\ tlog = <<>>
  /\ xscan \in ScanTablesUpTo(MaxScans)
  /\ xpwr \in PowerTables
  /\ xpwr_cfg \in CfgTablesUpTo(2)
  /\ source \in SourceTablesUpTo(MaxSourceId)
  /\ cfg_rows = [t \in CfgTables |-> 0]
  /\ hasGetLastID = TRUE
  /\ InitHandle

NextBoresight ==
  \E h \in Handles, year \in Years, doy \in Doys, fail \in BOOLEAN,
     emptyKeys \in BOOLEAN :
    extract_boresight_data(h, year, doy, fail, emptyKeys)

SpecBoresight == InitBoresight /\ [][NextBoresight]_vars

(***************************************************************************)
(* Properties of extract_boresight_data.                                   *)
(***************************************************************************)
\* the last call was extract_boresight_data and its xscan fetch succeeded
BoresightFetched == lastOp.op = "extract_boresight_data" /\ ~lastOp.fail

\* the elevation xpwr holds for the time of scan r, None when it holds none
PowerEl(r) ==
  LET rows == {xpwr[i] : i \in 1..Len(xpwr)}
      at   == {p \in rows : p.year = r.year /\ p.doy = r.doy /\ p.utc = r.utc}
  IN  IF at = {} THEN None ELSE (CHOOSE p \in at : TRUE).el

\* C8: when the xscan fetch succeeds with n scans, extract_boresight_data
\* returns a record set whose per-scan lists all have n entries, entry i
\* belonging to the i-th scan in store order, a scan whose xpwr_cfg_id has no
\* row getting a null source_id
C8_OneEntryPerScan ==
  BoresightFetched =>
    LET scans == ScansOfDay(lastOp.year, lastOp.doy)
        n     == Len(scans)
    IN  /\ result.kind = "return"
        /\ Len(result.val.utc) = n
        /\ Len(result.val.xscan_id) = n
        /\ Len(result.val.el) = n
        /\ Len(result.val.source_id) = n
        /\ Len(result.val.rx) = n
        /\ \A i \in 1..n :
             /\ result.val.xscan_id[i] = scans[i].xscan_id
             /\ result.val.utc[i] = scans[i].utc
             /\ result.val.source_id[i] =
                  (IF CfgOf(scans[i].xpwr_cfg_id) = {} THEN None
                   ELSE (CHOOSE c \in CfgOf(scans[i].xpwr_cfg_id) : TRUE).source_id)

\* C9: for a day with scans, extract_boresight_data returns a record set in
\* which the elevation of each scan is the scan's own when xscan has one,
\* otherwise the xpwr elevation of the same time when there is one,
\* otherwise null
C9_ElevationBackfilled ==
  BoresightFetched /\ ScansOfDay(lastOp.year, lastOp.doy) # <<>> =>
    LET scans == ScansOfDay(lastOp.year, lastOp.doy)
    IN  /\ result.kind = "return"
        /\ Len(result.val.el) = Len(scans)
        /\ \A i \in 1..Len(scans) :
             result.val.el[i] =
               (IF scans[i].el # None THEN scans[i].el ELSE PowerEl(scans[i]))

\* The elevation step taken alone: an elevation xscan holds is kept.
\* (Violated: the el column is replaced by that of xpwr as a whole.)
ElevationStepKeepsScanValues ==
  \A year \in Years, doy \in Doys :
    LET scans == ScansOfDay(year, doy)
        el    == FixedEl(year, doy)
    IN  \A i \in 1..Len(scans) :
          scans[i].el # None => i <= Len(el) /\ el[i] = scans[i].el

\* The xpwr_cfg step taken alone: source_id has one entry per scan.
\* (Violated: only the last scan's response is appended.)
CfgStepOneEntryPerScan ==
  \A year \in Years, doy \in Doys :
    LET scans == ScansOfDay(year, doy)
    IN  scans # <<>> => Len(SourceIdList(scans)) = Len(scans)

====
